---------------------------- MODULE Spec2Model ----------------------------
(***************************************************************************)
(* A model of src/patching.py: the patch language parser and applier.      *)
(*                                                                         *)
(* Texts are TLA+ strings, with "\n" as the line break, and the model      *)
(* computes on them as the Python code does (startswith, strip, split,     *)
(* join, slicing).  Python indices are kept 0-based in every value the     *)
(* code stores (orig_index, the cursors); only the access to a sequence    *)
(* adds one.                                                               *)
(*                                                                         *)
(* The module's strings are ASCII.  A code point outside ASCII is written  *)
(* as one ASCII character that the patch syntax and the file contents of   *)
(* the model never use otherwise; the definitions U2010 .. U00E9 below     *)
(* name them.                                                              *)
(***************************************************************************)
EXTENDS Integers, Sequences, FiniteSets, TLC

VARIABLES
    files,      \* the backend: a function from the paths it holds to their text
    pc,         \* where apply_patch is: "idle", "applying", "returned",
                \* "raised", or "hang" for a parse that never ends
    patch,      \* the patch text of the call in progress
    commit,     \* the Commit apply_commit walks: its FileChanges in dict order
    pos,        \* how many calls apply_commit has issued
    calls,      \* the write_fn / delete_fn calls issued by this call, in order
    reads,      \* the paths this call passed to read_fn
    before,     \* files when the call began
    err,        \* the exception that ended the call (NoError if none)
    hist,       \* the completed calls: <<[patch, before, after, pc, err]>>
    cn,         \* canon applied twice to a drawn string
    ps,         \* text_to_patch and get_updated_file applied to a drawn input
    rt,         \* a drawn diff between two files, as a patch, parsed and rewritten
    loc         \* find_context_core and find_context applied to a drawn input

vars ==
    <<files, pc, patch, commit, pos, calls, reads, before, err, hist, cn, ps, rt, loc>>

driver_vars == <<files, pc, patch, commit, pos, calls, reads, before, err, hist>>

-----------------------------------------------------------------------------
(* Constants of src/patching.py *)

PATCH_PREFIX == "*** Begin Patch\n"
PATCH_SUFFIX == "\n*** End Patch"
ADD_FILE_PREFIX == "*** Add File: "
DELETE_FILE_PREFIX == "*** Delete File: "
UPDATE_FILE_PREFIX == "*** Update File: "
MOVE_FILE_TO_PREFIX == "*** Move File To: "
END_OF_FILE_PREFIX == "*** End of File"
HUNK_ADD_LINE_PREFIX == "+"

(* ASCII stand-ins of the code points of PUNCT_EQUIV that are not ASCII *)
U2010 == "!"
U2011 == "#"
U2012 == "$"
U2013 == "%"
U2014 == "&"
U2212 == "~"
U201C == "("
U201D == ")"
U201E == ","
U00AB == "<"
U00BB == ">"
U2018 == "["
U2019 == "]"
U201B == "?"
U00A0 == "_"
U202F == "|"
(* and of a canonically equivalent pair: "e" U+0301 composes to U+00E9 *)
U0301 == "^"
U00E9 == "="

-----------------------------------------------------------------------------
(* Python's str and list operations *)

\* F applied to the value of v.  Where the Python code assigns a local
\* variable once and reads it many times, the model binds its value once.
Bind(v, F(_)) == CHOOSE r \in {F(x) : x \in {v}} : TRUE

Min(a, b) == IF a < b THEN a ELSE b
Max(a, b) == IF a > b THEN a ELSE b

\* s.startswith(p)
startswith(s, p) == Len(s) >= Len(p) /\ SubSeq(s, 1, Len(p)) = p

\* s[n:] for n >= 0
StrFrom(s, n) == SubSeq(s, n + 1, Len(s))

\* c.isspace() for a one-character string
isspace(c) == c \in {" ", "\t", "\n", "\r", "\f", U00A0, U202F}

RECURSIVE lstrip(_)
lstrip(s) ==
    IF s = "" THEN ""
    ELSE IF isspace(Head(s)) THEN lstrip(Tail(s)) ELSE s

RECURSIVE rstrip(_)
rstrip(s) ==
    IF s = "" THEN ""
    ELSE IF isspace(SubSeq(s, Len(s), Len(s)))
         THEN rstrip(SubSeq(s, 1, Len(s) - 1)) ELSE s

strip(s) == lstrip(rstrip(s))

\* the number of characters of s before its first "\n" (Len(s) if it has none)
RECURSIVE LineEnd(_)
LineEnd(s) ==
    IF s = "" \/ Head(s) = "\n" THEN 0 ELSE 1 + LineEnd(Tail(s))

\* s.split("\n"): never empty, "" splits to <<"">>
RECURSIVE split(_)
split(s) ==
    LET n == LineEnd(s)
    IN IF n = Len(s) THEN <<s>>
       ELSE <<SubSeq(s, 1, n)>> \o split(StrFrom(s, n + 1))

\* "\n".join(lines)
RECURSIVE join(_)
join(lines) ==
    IF lines = <<>> THEN ""
    ELSE IF Len(lines) = 1 THEN lines[1]
    ELSE lines[1] \o "\n" \o join(Tail(lines))

\* lines[i:j] with Python's treatment of negative and out-of-range bounds
Slice(lines, i, j) ==
    LET n == Len(lines)
        lo == IF i < 0 THEN Max(n + i, 0) ELSE Min(i, n)
        hi == IF j < 0 THEN Max(n + j, 0) ELSE Min(j, n)
    IN SubSeq(lines, lo + 1, hi)

\* [f(x) for x in lines]
MapStrip(lines) == [i \in 1..Len(lines) |-> strip(lines[i])]
MapRstrip(lines) == [i \in 1..Len(lines) |-> rstrip(lines[i])]

-----------------------------------------------------------------------------
(* canon *)

PUNCT_KEYS ==
    {"-", U2010, U2011, U2012, U2013, U2014, U2212,
     "\"", U201C, U201D, U201E, U00AB, U00BB,
     "'", U2018, U2019, U201B,
     U00A0, U202F}

\* a fold table with a chained entry: the em dash goes to the en dash
PUNCT_EQUIV_chained(c) ==
    IF c = U2014 THEN U2013
    ELSE IF c \in {"-", U2010, U2011, U2012, U2013, U2212} THEN "-"
    ELSE IF c \in {"\"", U201C, U201D, U201E, U00AB, U00BB} THEN "\""
    ELSE IF c \in {"'", U2018, U2019, U201B} THEN "'"
    ELSE IF c \in {U00A0, U202F} THEN " "
    ELSE c

\* str.translate(str.maketrans(PUNCT_EQUIV)) on one character
PUNCT_EQUIV(c) ==
    IF c \in {"-", U2010, U2011, U2012, U2013, U2014, U2212} THEN "-"
    ELSE IF c \in {"\"", U201C, U201D, U201E, U00AB, U00BB} THEN "\""
    ELSE IF c \in {"'", U2018, U2019, U201B} THEN "'"
    ELSE IF c \in {U00A0, U202F} THEN " "
    ELSE c

RECURSIVE translate(_)
translate(s) ==
    IF s = "" THEN "" ELSE PUNCT_EQUIV(Head(s)) \o translate(Tail(s))

\* unicodedata.normalize("NFC", s) on the model's alphabet, whose one
\* composable pair is "e" U+0301
RECURSIVE NFC(_)
NFC(s) ==
    IF s = "" THEN ""
    ELSE IF startswith(s, "e" \o U0301) THEN U00E9 \o NFC(StrFrom(s, 2))
    ELSE Head(s) \o NFC(Tail(s))

canon(s) == translate(NFC(s))

-----------------------------------------------------------------------------
(* The context locator *)

\* the smallest element of a set of integers, -1 for the empty set
FirstHit(S) == IF S = {} THEN -1 ELSE CHOOSE i \in S : \A j \in S : i <= j

\* the indices the three loops of find_context_core visit: range(start,
\* len(lines)) up to the break at i + len(context) > len(lines)
ScanRange(lines, context, start) ==
    start .. Min(Len(lines) - 1, Len(lines) - Len(context))

\* a locator whose tolerant pass is tried before the exact one
find_context_core_tolerant_first(lines, context, start) ==
    LET n == Len(context)
        R == ScanRange(lines, context, start)
        p1 == FirstHit({i \in R :
                  canon(join(Slice(lines, i, i + n))) = canon(join(context))})
        p3 == FirstHit({i \in R :
                  canon(join(MapStrip(Slice(lines, i, i + n))))
                      = canon(join(MapStrip(context)))})
    IN IF context = <<>> THEN [index |-> start, fuzz |-> 0]
       ELSE IF p3 # -1 THEN [index |-> p3, fuzz |-> IF p3 = p1 THEN 0 ELSE 100]
       ELSE [index |-> -1, fuzz |-> 0]

\* a locator that answers start when no pass finds the context
find_context_core_lenient(lines, context, start) == [index |-> start, fuzz |-> 0]

find_context_core(lines, context, start) ==
    LET n == Len(context)
        R == ScanRange(lines, context, start)
        p1 == FirstHit({i \in R :
                  canon(join(Slice(lines, i, i + n))) = canon(join(context))})
        p2 == FirstHit({i \in R :
                  canon(join(MapRstrip(Slice(lines, i, i + n))))
                      = canon(join(MapRstrip(context)))})
        p3 == FirstHit({i \in R :
                  canon(join(MapStrip(Slice(lines, i, i + n))))
                      = canon(join(MapStrip(context)))})
    IN IF context = <<>> THEN [index |-> start, fuzz |-> 0]
       ELSE IF p1 # -1 THEN [index |-> p1, fuzz |-> 0]
       ELSE IF p2 # -1 THEN [index |-> p2, fuzz |-> 1]
       ELSE IF p3 # -1 THEN [index |-> p3, fuzz |-> 100]
       ELSE [index |-> -1, fuzz |-> 0]

\* a locator that searches an End of File hunk from the caller's start only
find_context_from_start(lines, context, start, eof) ==
    find_context_core(lines, context, start)

find_context(lines, context, start, eof) ==
    IF eof
    THEN LET pinned == find_context_core(lines, context,
                                         Len(lines) - Len(context))
             again == find_context_core(lines, context, start)
         IN IF pinned.index # -1 THEN pinned
            ELSE [index |-> again.index, fuzz |-> again.fuzz + 10000]
    ELSE find_context_core(lines, context, start)

-----------------------------------------------------------------------------
(* The hunk scanner *)

\* the end_prefixes of peek_next_section, each as p.strip()
PeekEndPrefixes ==
    {strip("@@"), strip(strip(PATCH_SUFFIX)), strip(UPDATE_FILE_PREFIX),
     strip(DELETE_FILE_PREFIX), strip(ADD_FILE_PREFIX), strip(END_OF_FILE_PREFIX)}

Chunk(orig_index, del_lines, ins_lines) ==
    [orig_index |-> orig_index, del_lines |-> del_lines, ins_lines |-> ins_lines]

\* chunk offsets counted from the end of the context window
Flush_from_end(st) ==
    IF st.ins_lines # <<>> \/ st.del_lines # <<>>
    THEN Append(st.chunks, Chunk(Len(st.old), st.del_lines, st.ins_lines))
    ELSE st.chunks

\* the chunk appended when ins_lines or del_lines is not empty
Flush(st) ==
    IF st.ins_lines # <<>> \/ st.del_lines # <<>>
    THEN Append(st.chunks,
                Chunk(Len(st.old) - Len(st.del_lines), st.del_lines, st.ins_lines))
    ELSE st.chunks

\* the while loop of peek_next_section; st holds its local variables
RECURSIVE PeekLoop(_, _)
PeekLoop(lines, st) ==
    IF ~(st.index < Len(lines)) THEN st
    ELSE
    LET s == lines[st.index + 1]
    IN IF (\E p \in PeekEndPrefixes : startswith(s, p)) \/ s = "***" THEN st
       ELSE IF startswith(s, "***") THEN [st EXCEPT !.err = "Invalid Line"]
       ELSE
       LET last_mode == st.mode
           mode == IF startswith(s, HUNK_ADD_LINE_PREFIX) THEN "add"
                   ELSE IF startswith(s, "-") THEN "delete"
                   ELSE "keep"
           line0 == IF startswith(s, HUNK_ADD_LINE_PREFIX) \/ startswith(s, "-")
                       \/ startswith(s, " ")
                    THEN s ELSE " " \o s
           line == StrFrom(line0, 1)
           closes == mode = "keep" /\ last_mode # mode
           chunks1 == IF closes THEN Flush(st) ELSE st.chunks
           del1 == IF closes THEN <<>> ELSE st.del_lines
           ins1 == IF closes THEN <<>> ELSE st.ins_lines
       IN Bind([index |-> st.index + 1,
                old |-> IF mode = "add" THEN st.old ELSE Append(st.old, line),
                del_lines |-> IF mode = "delete" THEN Append(del1, line) ELSE del1,
                ins_lines |-> IF mode = "add" THEN Append(ins1, line) ELSE ins1,
                chunks |-> chunks1,
                mode |-> mode,
                err |-> ""],
               LAMBDA next : PeekLoop(lines, next))

peek_next_section(lines, initial_index) ==
    Bind(PeekLoop(lines,
            [index |-> initial_index, old |-> <<>>, del_lines |-> <<>>,
             ins_lines |-> <<>>, chunks |-> <<>>, mode |-> "keep", err |-> ""]),
         LAMBDA st :
            LET eof == st.index < Len(lines)
                          /\ lines[st.index + 1] = END_OF_FILE_PREFIX
            IN [old |-> st.old, chunks |-> Flush(st),
                index |-> IF eof THEN st.index + 1 ELSE st.index,
                eof |-> eof, err |-> st.err])

-----------------------------------------------------------------------------
(* Exceptions: a raised exception is a record of its class and message.  *)
(* A message keeps the fixed words of the f-string that builds it and     *)
(* drops the values interpolated after them (a path, an index, a line).   *)

NoError == [type |-> "None", msg |-> ""]
DiffError(msg) == [type |-> "DiffError", msg |-> msg]
\* an exception of another class (IndexError, ValueError)
OtherError(type) == [type |-> type, msg |-> ""]
\* not an exception: the loop of parse_update_file repeats a step that
\* changes nothing, so the call never returns
Hang == [type |-> "Hang", msg |-> ""]

-----------------------------------------------------------------------------
(* The parser.  self.lines is lines, self.current_files is current_files;  *)
(* self.index, self.patch["actions"] and self.fuzz travel in a record.     *)

\* Parser.is_done
is_done(lines, index, prefixes) ==
    \/ index >= Len(lines)
    \/ \E p \in prefixes : startswith(lines[index + 1], strip(p))

\* Parser.read_str(prefix): the text read and the cursor after it
read_str(lines, index, prefix) ==
    IF index >= Len(lines)
    THEN [text |-> "", index |-> index, err |-> DiffError("Index")]
    ELSE IF startswith(lines[index + 1], prefix)
    THEN [text |-> StrFrom(lines[index + 1], Len(prefix)),
          index |-> index + 1, err |-> NoError]
    ELSE [text |-> "", index |-> index, err |-> NoError]

UpdateEndPrefixes ==
    {PATCH_SUFFIX, UPDATE_FILE_PREFIX, DELETE_FILE_PREFIX, ADD_FILE_PREFIX,
     END_OF_FILE_PREFIX}

AddEndPrefixes ==
    {PATCH_SUFFIX, UPDATE_FILE_PREFIX, DELETE_FILE_PREFIX, ADD_FILE_PREFIX}


\* DefLine scanning from the top of the file instead of from the cursor
DefLine_from_top(file_lines, def_str, index) ==
    LET R == 0 .. Len(file_lines) - 1
        exact == FirstHit({i \in R : canon(file_lines[i + 1]) = canon(def_str)})
        trimmed == FirstHit({i \in R :
                       canon(strip(file_lines[i + 1])) = canon(strip(def_str))})
    IN IF strip(def_str) = "" THEN [index |-> index, fuzz |-> 0]
       ELSE IF exact # -1 THEN [index |-> exact + 1, fuzz |-> 0]
       ELSE IF trimmed # -1 THEN [index |-> trimmed + 1, fuzz |-> 1]
       ELSE [index |-> index, fuzz |-> 0]

\* the two scans for a def-line: the file cursor and the fuzz after them
DefLine(file_lines, def_str, index) ==
    LET R == index .. Len(file_lines) - 1
        exact == FirstHit({i \in R : canon(file_lines[i + 1]) = canon(def_str)})
        trimmed == FirstHit({i \in R :
                       canon(strip(file_lines[i + 1])) = canon(strip(def_str))})
    IN IF strip(def_str) = "" THEN [index |-> index, fuzz |-> 0]
       ELSE IF exact # -1 THEN [index |-> exact + 1, fuzz |-> 0]
       ELSE IF trimmed # -1 THEN [index |-> trimmed + 1, fuzz |-> 1]
       ELSE [index |-> index, fuzz |-> 0]

\* chunks left at their offsets within the hunk
Rebase_none(chunks, new_index) == chunks

\* for ch in chunks: ch["orig_index"] += new_index
Rebase(chunks, new_index) ==
    [k \in 1..Len(chunks) |->
        [chunks[k] EXCEPT !.orig_index = chunks[k].orig_index + new_index]]

\* the while loop of parse_update_file.  u.self_index is self.index,
\* u.index the cursor into file_lines, u.fuzz is self.fuzz
RECURSIVE UpdateLoop(_, _, _)
UpdateLoop(lines, file_lines, u) ==
    IF is_done(lines, u.self_index, UpdateEndPrefixes) THEN u
    ELSE
    LET d == read_str(lines, u.self_index, "@@ ")
        def_str == d.text
        section == def_str = "" /\ d.index < Len(lines)
                      /\ lines[d.index + 1] = "@@"
        self_index == IF section THEN d.index + 1 ELSE d.index
    IN IF ~(def_str # "" \/ section \/ u.index = 0)
       THEN [u EXCEPT !.err = IF self_index < Len(lines)
                               THEN DiffError("Invalid Line")
                               ELSE OtherError("IndexError")]
       ELSE
       Bind(DefLine(file_lines, def_str, u.index), LAMBDA dl :
       Bind(peek_next_section(lines, self_index), LAMBDA pk :
       Bind(find_context(file_lines, pk.old, dl.index, pk.eof), LAMBDA fc :
       Bind([self_index |-> pk.index,
             index |-> fc.index + Len(pk.old),
             chunks |-> u.chunks \o Rebase(pk.chunks, fc.index),
             fuzz |-> u.fuzz + dl.fuzz + fc.fuzz,
             err |-> NoError], LAMBDA next :
          IF pk.err # ""
          THEN [u EXCEPT !.err = DiffError(pk.err), !.fuzz = u.fuzz + dl.fuzz]
          ELSE IF fc.index = -1
          THEN [u EXCEPT !.err = DiffError(IF pk.eof THEN "Invalid EOF Context"
                                           ELSE "Invalid Context"),
                         !.fuzz = u.fuzz + dl.fuzz]
          ELSE IF next = u THEN [u EXCEPT !.err = Hang]
          ELSE UpdateLoop(lines, file_lines, next)))))

\* Parser.parse_update_file(text), entered with self.index = self_index
parse_update_file(lines, self_index, fuzz, text) ==
    Bind(split(text), LAMBDA file_lines :
    Bind([self_index |-> self_index, index |-> 0, chunks |-> <<>>,
          fuzz |-> fuzz, err |-> NoError], LAMBDA u :
       UpdateLoop(lines, file_lines, u)))

\* the while loop of parse_add_file
RECURSIVE AddLoop(_, _)
AddLoop(lines, a) ==
    IF is_done(lines, a.self_index, AddEndPrefixes) THEN a
    ELSE
    LET r == read_str(lines, a.self_index, "")
    IN IF ~startswith(r.text, HUNK_ADD_LINE_PREFIX)
       THEN [a EXCEPT !.err = DiffError("Invalid Add File Line"),
                      !.self_index = r.index]
       ELSE Bind([a EXCEPT !.self_index = r.index,
                           !.lines = Append(a.lines, StrFrom(r.text, 1))],
                 LAMBDA next : AddLoop(lines, next))

\* Parser.parse_add_file()
parse_add_file(lines, self_index) ==
    Bind(AddLoop(lines, [self_index |-> self_index, lines |-> <<>>,
                         err |-> NoError]),
         LAMBDA a : [self_index |-> a.self_index, new_file |-> join(a.lines),
                     err |-> a.err])

\* the PatchAction values; an absent key is ""
UpdateAction(path, chunks, move_path) ==
    [path |-> path, type |-> "update", new_file |-> "", chunks |-> chunks,
     move_path |-> move_path]
DeleteAction(path) ==
    [path |-> path, type |-> "delete", new_file |-> "", chunks |-> <<>>,
     move_path |-> ""]
AddAction(path, new_file) ==
    [path |-> path, type |-> "add", new_file |-> new_file, chunks |-> <<>>,
     move_path |-> ""]

\* the keys of self.patch["actions"], a dict kept as the sequence of its
\* items in insertion order
Keys(actions) == {actions[k].path : k \in 1..Len(actions)}

Raise(p, e) == [p EXCEPT !.err = e]

\* the section of parse that follows a read "*** Update File: " header
ParseUpdate(lines, current_files, p, path, index) ==
    LET m == read_str(lines, index, MOVE_FILE_TO_PREFIX)
        move_to == m.text
    IN IF path \in Keys(p.actions)
       THEN Raise(p, DiffError("Update File Error: Duplicate Path"))
       ELSE IF m.err # NoError THEN Raise(p, m.err)
       ELSE IF path \notin DOMAIN current_files
       THEN Raise(p, DiffError("Update File Error: Missing File"))
       ELSE Bind(parse_update_file(lines, m.index, p.fuzz, current_files[path]),
                 LAMBDA u :
                    [index |-> u.self_index,
                     actions |-> IF u.err = NoError
                                 THEN Append(p.actions,
                                             UpdateAction(path, u.chunks, move_to))
                                 ELSE p.actions,
                     fuzz |-> u.fuzz,
                     err |-> u.err])

\* a Delete section that looks for the file before it looks for a duplicate
ParseDelete_missing_first(current_files, p, path, index) ==
    IF path \notin DOMAIN current_files
    THEN Raise(p, DiffError("Delete File Error: Missing File"))
    ELSE IF path \in Keys(p.actions)
    THEN Raise(p, DiffError("Delete File Error: Duplicate Path"))
    ELSE [p EXCEPT !.index = index,
                   !.actions = Append(p.actions, DeleteAction(path))]

\* the section that follows a read "*** Delete File: " header
ParseDelete(current_files, p, path, index) ==
    IF path \in Keys(p.actions)
    THEN Raise(p, DiffError("Delete File Error: Duplicate Path"))
    ELSE IF path \notin DOMAIN current_files
    THEN Raise(p, DiffError("Delete File Error: Missing File"))
    ELSE [p EXCEPT !.index = index,
                   !.actions = Append(p.actions, DeleteAction(path))]

\* the section that follows a read "*** Add File: " header
ParseAdd(lines, current_files, p, path, index) ==
    IF path \in Keys(p.actions)
    THEN Raise(p, DiffError("Add File Error: Duplicate Path"))
    ELSE IF path \in DOMAIN current_files
    THEN Raise(p, DiffError("Add File Error: File already exists"))
    ELSE Bind(parse_add_file(lines, index), LAMBDA a :
            [index |-> a.self_index,
             actions |-> IF a.err = NoError
                         THEN Append(p.actions, AddAction(path, a.new_file))
                         ELSE p.actions,
             fuzz |-> p.fuzz,
             err |-> a.err])

\* the while loop of Parser.parse
RECURSIVE ParseLoop(_, _, _)
ParseLoop(lines, current_files, p) ==
    IF p.err # NoError \/ is_done(lines, p.index, {PATCH_SUFFIX}) THEN p
    ELSE
    LET upd == read_str(lines, p.index, UPDATE_FILE_PREFIX)
        del == read_str(lines, upd.index, DELETE_FILE_PREFIX)
        add == read_str(lines, del.index, ADD_FILE_PREFIX)
    IN IF upd.text # ""
       THEN Bind(ParseUpdate(lines, current_files, p, upd.text, upd.index),
                 LAMBDA next : ParseLoop(lines, current_files, next))
       ELSE IF del.err # NoError THEN Raise(p, del.err)
       ELSE IF del.text # ""
       THEN Bind(ParseDelete(current_files, p, del.text, del.index),
                 LAMBDA next : ParseLoop(lines, current_files, next))
       ELSE IF add.err # NoError THEN Raise(p, add.err)
       ELSE IF add.text # ""
       THEN Bind(ParseAdd(lines, current_files, p, add.text, add.index),
                 LAMBDA next : ParseLoop(lines, current_files, next))
       ELSE IF add.index < Len(lines) THEN Raise(p, DiffError("Unknown Line"))
       ELSE Raise(p, OtherError("IndexError"))

\* Parser.parse, entered with self.index = index
parse(lines, current_files, index) ==
    Bind(ParseLoop(lines, current_files,
                   [index |-> index, actions |-> <<>>, fuzz |-> 0,
                    err |-> NoError]),
         LAMBDA p :
            IF p.err # NoError THEN p
            ELSE IF ~(p.index < Len(lines)) THEN Raise(p, OtherError("IndexError"))
            ELSE IF ~startswith(lines[p.index + 1], strip(PATCH_SUFFIX))
            THEN Raise(p, DiffError("Missing End Patch"))
            ELSE [p EXCEPT !.index = p.index + 1])

\* text_to_patch(text, orig): the Patch (its actions), the fuzz, the exception
text_to_patch(text, orig) ==
    Bind(split(strip(text)), LAMBDA lines :
       IF Len(lines) < 2
          \/ ~startswith(lines[1], strip(PATCH_PREFIX))
          \/ lines[Len(lines)] # strip(PATCH_SUFFIX)
       THEN [actions |-> <<>>, fuzz |-> 0, err |-> DiffError("Invalid patch format")]
       ELSE Bind(parse(lines, orig, 1), LAMBDA p :
               [actions |-> p.actions, fuzz |-> p.fuzz, err |-> p.err]))

-----------------------------------------------------------------------------
(* The file rewriter and the planner *)

\* the for loop of get_updated_file from chunk k on; g holds dest_lines,
\* orig_index and the exception
RECURSIVE RewriteLoop(_, _, _, _)
RewriteLoop(orig_lines, chunks, k, g) ==
    IF k > Len(chunks) THEN g
    ELSE
    LET chunk == chunks[k]
    IN IF chunk.orig_index > Len(orig_lines)
       THEN [g EXCEPT !.err = DiffError("chunk.orig_index > len(lines)")]
       ELSE IF g.orig_index > chunk.orig_index
       THEN [g EXCEPT !.err = DiffError("orig_index > chunk.orig_index")]
       ELSE Bind([dest_lines |-> g.dest_lines
                                   \o Slice(orig_lines, g.orig_index, chunk.orig_index)
                                   \o chunk.ins_lines,
                  orig_index |-> chunk.orig_index + Len(chunk.del_lines),
                  err |-> NoError],
                 LAMBDA next : RewriteLoop(orig_lines, chunks, k + 1, next))

\* a rewriter that drops the lines after the last chunk
get_updated_file_no_tail(text, action) ==
    IF action.type # "update"
    THEN [text |-> "", err |-> OtherError("ValueError")]
    ELSE
    Bind(split(text), LAMBDA orig_lines :
    Bind(RewriteLoop(orig_lines, action.chunks, 1,
                     [dest_lines |-> <<>>, orig_index |-> 0, err |-> NoError]),
         LAMBDA g :
            IF g.err # NoError THEN [text |-> "", err |-> g.err]
            ELSE [text |-> join(IF action.chunks = <<>> THEN orig_lines ELSE g.dest_lines),
                  err |-> NoError]))

\* a rewriter that emits the kept lines in their canonical form
get_updated_file_canon(text, action) ==
    IF action.type # "update"
    THEN [text |-> "", err |-> OtherError("ValueError")]
    ELSE
    Bind([i \in 1..Len(split(text)) |-> canon(rstrip(split(text)[i]))],
         LAMBDA orig_lines :
    Bind(RewriteLoop(orig_lines, action.chunks, 1,
                     [dest_lines |-> <<>>, orig_index |-> 0, err |-> NoError]),
         LAMBDA g :
            IF g.err # NoError THEN [text |-> "", err |-> g.err]
            ELSE [text |-> join(g.dest_lines
                                \o Slice(orig_lines, g.orig_index, Len(orig_lines))),
                  err |-> NoError]))

\* get_updated_file(text, action, path): the new text, or the exception
get_updated_file(text, action) ==
    IF action.type # "update"
    THEN [text |-> "", err |-> OtherError("ValueError")]
    ELSE
    Bind(split(text), LAMBDA orig_lines :
    Bind(RewriteLoop(orig_lines, action.chunks, 1,
                     [dest_lines |-> <<>>, orig_index |-> 0, err |-> NoError]),
         LAMBDA g :
            IF g.err # NoError THEN [text |-> "", err |-> g.err]
            ELSE [text |-> join(g.dest_lines
                                \o Slice(orig_lines, g.orig_index, Len(orig_lines))),
                  err |-> NoError]))

\* the FileChange values; an absent key is ""
FileChange(path, type, old_content, new_content, move_path) ==
    [path |-> path, type |-> type, old_content |-> old_content,
     new_content |-> new_content, move_path |-> move_path]

\* the for loop of patch_to_commit from action k on
RECURSIVE CommitLoop(_, _, _, _)
CommitLoop(actions, orig, k, c) ==
    IF k > Len(actions) \/ c.err # NoError THEN c
    ELSE
    LET action == actions[k]
        path == action.path
    IN IF action.type = "delete"
       THEN Bind([c EXCEPT !.changes =
                     Append(@, FileChange(path, "delete", orig[path], "", ""))],
                 LAMBDA next : CommitLoop(actions, orig, k + 1, next))
       ELSE IF action.type = "add"
       THEN Bind([c EXCEPT !.changes =
                     Append(@, FileChange(path, "add", "", action.new_file, ""))],
                 LAMBDA next : CommitLoop(actions, orig, k + 1, next))
       ELSE Bind(get_updated_file(orig[path], action), LAMBDA new :
               IF new.err # NoError THEN [c EXCEPT !.err = new.err]
               ELSE Bind([c EXCEPT !.changes =
                             Append(@, FileChange(path, "update", orig[path],
                                                  new.text, action.move_path))],
                         LAMBDA next : CommitLoop(actions, orig, k + 1, next)))

\* patch_to_commit(patch, orig): the Commit (its changes, in insertion order)
patch_to_commit(actions, orig) ==
    CommitLoop(actions, orig, 1, [changes |-> <<>>, err |-> NoError])

-----------------------------------------------------------------------------
(* The driver *)

\* the paths after the given header prefixes, over text.strip().split("\n")
HeaderPaths(text, prefixes) ==
    Bind(split(strip(text)), LAMBDA lines :
       {StrFrom(lines[k], Len(p)) :
           <<k, p>> \in {kp \in (1..Len(lines)) \X prefixes :
                            startswith(lines[kp[1]], kp[2])}})

identify_files_needed(text) ==
    HeaderPaths(text, {UPDATE_FILE_PREFIX, DELETE_FILE_PREFIX})

\* a scan that finds no Add File header
identify_files_added_none(text) == {}

identify_files_added(text) ==
    HeaderPaths(text, {ADD_FILE_PREFIX})

\* a loader that leaves out the paths read_fn cannot read
load_files_skip_missing(paths, fs) ==
    [orig |-> [p \in paths \cap DOMAIN fs |-> fs[p]], err |-> NoError]

\* load_files(paths, read_fn) against the backend fs
load_files(paths, fs) ==
    IF paths \subseteq DOMAIN fs
    THEN [orig |-> [p \in paths |-> fs[p]], err |-> NoError]
    ELSE [orig |-> <<>>, err |-> DiffError("File not found")]

\* an apply_patch that does not test the prefix of the text
apply_patch_any_prefix(text, fs) ==
    Bind(load_files(identify_files_needed(text), fs), LAMBDA loaded :
       IF loaded.err # NoError THEN [changes |-> <<>>, err |-> loaded.err]
       ELSE Bind(text_to_patch(text, loaded.orig), LAMBDA parsed :
               IF parsed.err # NoError
               THEN [changes |-> <<>>, err |-> parsed.err]
               ELSE patch_to_commit(parsed.actions, loaded.orig)))

\* apply_patch up to its call of apply_commit: the Commit, or the exception
apply_patch(text, fs) ==
    IF ~startswith(text, PATCH_PREFIX)
    THEN [changes |-> <<>>,
          err |-> DiffError("Patch must start with *** Begin Patch\\n")]
    ELSE
    Bind(load_files(identify_files_needed(text), fs), LAMBDA loaded :
       IF loaded.err # NoError THEN [changes |-> <<>>, err |-> loaded.err]
       ELSE IF identify_files_added(text) \cap DOMAIN fs # {}
       THEN [changes |-> <<>>,
             err |-> DiffError("Add File Error: File already exists")]
       ELSE Bind(text_to_patch(text, loaded.orig), LAMBDA parsed :
               IF parsed.err # NoError
               THEN [changes |-> <<>>, err |-> parsed.err]
               ELSE patch_to_commit(parsed.actions, loaded.orig)))

\* the sets of paths apply_patch may have passed to read_fn: load_files and
\* the Add check walk list(set), whose order the code does not fix, and
\* stop at the first path that raises
ReadSets(text, fs) ==
    LET needed == identify_files_needed(text)
        added == identify_files_added(text)
    IN IF ~startswith(text, PATCH_PREFIX) THEN {{}}
       ELSE IF ~(needed \subseteq DOMAIN fs)
       THEN {R \cup {m} : R \in SUBSET (needed \cap DOMAIN fs),
                          m \in needed \ DOMAIN fs}
       ELSE IF added \cap DOMAIN fs # {}
       THEN {needed \cup R \cup {x} : R \in SUBSET (added \ DOMAIN fs),
                                      x \in added \cap DOMAIN fs}
       ELSE {needed \cup added}

WriteCall(key, path, content) ==
    [op |-> "write", key |-> key, path |-> path, content |-> content]
DeleteCall(key, path) ==
    [op |-> "delete", key |-> key, path |-> path, content |-> ""]

\* a move that unlinks the source before it writes the destination
Mutations_unlink_first(change) ==
    IF change.type = "delete" THEN <<DeleteCall(change.path, change.path)>>
    ELSE IF change.type = "add"
    THEN <<WriteCall(change.path, change.path, change.new_content)>>
    ELSE IF change.move_path # ""
    THEN <<DeleteCall(change.path, change.path),
           WriteCall(change.path, change.move_path, change.new_content)>>
    ELSE <<WriteCall(change.path, change.path, change.new_content)>>

\* a Delete section that issues no call
Mutations_no_delete(change) ==
    IF change.type = "delete" THEN <<>>
    ELSE IF change.type = "add"
    THEN <<WriteCall(change.path, change.path, change.new_content)>>
    ELSE IF change.move_path # ""
    THEN <<WriteCall(change.path, change.move_path, change.new_content),
           DeleteCall(change.path, change.path)>>
    ELSE <<WriteCall(change.path, change.path, change.new_content)>>

\* the backend calls the body of apply_commit's loop issues for one change
Mutations(change) ==
    IF change.type = "delete" THEN <<DeleteCall(change.path, change.path)>>
    ELSE IF change.type = "add"
    THEN <<WriteCall(change.path, change.path, change.new_content)>>
    ELSE IF change.move_path # ""
    THEN <<WriteCall(change.path, change.move_path, change.new_content),
           DeleteCall(change.path, change.path)>>
    ELSE <<WriteCall(change.path, change.path, change.new_content)>>

Reverse(seq) == [k \in 1..Len(seq) |-> seq[Len(seq) + 1 - k]]

\* a loop that walks the changes last to first
RECURSIVE apply_commit_reversed(_)
apply_commit_reversed(changes) ==
    IF changes = <<>> THEN <<>>
    ELSE apply_commit_reversed(Tail(changes)) \o Mutations(Head(changes))

\* apply_commit(commit, write_fn, delete_fn): the calls of its loop, in order
RECURSIVE apply_commit(_)
apply_commit(changes) ==
    IF changes = <<>> THEN <<>>
    ELSE Mutations(Head(changes)) \o apply_commit(Tail(changes))

\* an apply_commit that rethrows a backend exception as a DiffError
BackendException_as_DiffError == DiffError("backend")

\* the exception of a failing write_fn or delete_fn, which apply_commit and
\* apply_patch let through as it is
BackendException == OtherError("OSError")

\* the backend of the tests: mock_write and mock_delete on mock_files
mock_write(fs, path, content) ==
    [p \in DOMAIN fs \cup {path} |-> IF p = path THEN content ELSE fs[p]]

mock_delete(fs, path) == [p \in DOMAIN fs \ {path} |-> fs[p]]

-----------------------------------------------------------------------------
(* The inputs of the driver: backends and patch texts *)

MaxSections == 2
MaxCalls == 2

Paths == {"a", "b"}

\* the file texts a backend starts with
Contents == {"x\nz"}

Backends == UNION {[S -> Contents] : S \in SUBSET Paths}

RECURSIVE SeqsUpTo(_, _)
SeqsUpTo(S, n) ==
    IF n = 0 THEN {<<>>}
    ELSE LET shorter == SeqsUpTo(S, n - 1)
         IN shorter \cup {Append(q, x) : q \in shorter, x \in S}

RECURSIVE Concat(_)
Concat(strs) == IF strs = <<>> THEN "" ELSE Head(strs) \o Concat(Tail(strs))

UpdateSection(p, body) == UPDATE_FILE_PREFIX \o p \o "\n" \o body
MoveSection(p, q, body) ==
    UPDATE_FILE_PREFIX \o p \o "\n" \o MOVE_FILE_TO_PREFIX \o q \o "\n" \o body
DeleteSection(p) == DELETE_FILE_PREFIX \o p \o "\n"
AddSection(p, body) == ADD_FILE_PREFIX \o p \o "\n" \o body

PatchOf(sections) == PATCH_PREFIX \o Concat(sections) \o strip(PATCH_SUFFIX)

\* hunks against "x\nz": one that applies, one whose context is not in the
\* file, and two hunks the second of which is pinned before the first
GoodBody == "-x\n+y\n"
BadContextBody == " q\n-x\n+y\n"
BackwardBody == "-z\n@@\n-x\n z\n*** End of File\n"

Sections ==
    {UpdateSection(p, b) : p \in Paths, b \in {GoodBody, BadContextBody, BackwardBody}}
    \cup {MoveSection(p, q, GoodBody) : p \in Paths, q \in Paths}
    \cup {DeleteSection(p) : p \in Paths}
    \cup {AddSection(p, b) : p \in Paths, b \in {"+n\n", "n\n"}}

\* a text with a Delete section after a first End Patch line
EarlyEndText ==
    PatchOf(<<DeleteSection("a")>>) \o "\n" \o DeleteSection("b")
        \o strip(PATCH_SUFFIX)

PatchTexts ==
    {PatchOf(ss) : ss \in SeqsUpTo(Sections, MaxSections)}
    \cup {"*** Begin Patch", " " \o PatchOf(<<DeleteSection("a")>>),
          PATCH_PREFIX \o DeleteSection("a"), EarlyEndText}

AddBodies == {"", "+n\n", "+n\n+m\n"}

SeqTexts ==
    {PatchOf(<<AddSection(p, b)>>) : p \in Paths, b \in AddBodies}
    \cup {PatchOf(<<DeleteSection(p)>>) : p \in Paths}
    \cup {PatchOf(<<UpdateSection(p, GoodBody)>>) : p \in Paths}

-----------------------------------------------------------------------------
(* The actions of a call of apply_patch *)

Null == [n |-> 0]

pure_vars == <<cn, ps, rt, loc>>

\* the record of a completed call
Done(text, fs0, fs1, how, e) ==
    [patch |-> text, before |-> fs0, after |-> fs1, pc |-> how, err |-> e]

\* the calls apply_commit has left to issue
Pending == apply_commit(commit)

\* apply_patch(text, read_fn, write_fn, delete_fn) is called and runs up to
\* the first backend mutation; it raises here if it raises a DiffError
Call(text) ==
    /\ pc \in {"idle", "returned", "raised"}
    /\ patch' = text
    /\ before' = files
    /\ calls' = <<>>
    /\ pos' = 0
    /\ reads' \in ReadSets(text, files)
    /\ \E r \in {apply_patch(text, files)} :
          /\ commit' = r.changes
          /\ err' = r.err
          /\ pc' = IF r.err = NoError THEN "applying"
                   ELSE IF r.err = Hang THEN "hang" ELSE "raised"
          /\ hist' = IF r.err \notin {NoError, Hang}
                     THEN Append(hist, Done(text, files, files, "raised", r.err))
                     ELSE hist
    /\ UNCHANGED <<files, pure_vars>>

\* the next call of apply_commit is a write_fn and it returns
WriteFn ==
    /\ pc = "applying"
    /\ pos < Len(Pending)
    /\ Pending[pos + 1].op = "write"
    /\ files' = mock_write(files, Pending[pos + 1].path, Pending[pos + 1].content)
    /\ calls' = Append(calls, Pending[pos + 1])
    /\ pos' = pos + 1
    /\ UNCHANGED <<pc, patch, commit, reads, before, err, hist, pure_vars>>

\* the next call is a delete_fn: it returns, or raises FileNotFoundError
DeleteFn ==
    /\ pc = "applying"
    /\ pos < Len(Pending)
    /\ Pending[pos + 1].op = "delete"
    /\ calls' = Append(calls, Pending[pos + 1])
    /\ pos' = pos + 1
    /\ IF Pending[pos + 1].path \in DOMAIN files
       THEN /\ files' = mock_delete(files, Pending[pos + 1].path)
            /\ UNCHANGED <<pc, err, hist>>
       ELSE /\ pc' = "raised"
            /\ err' = OtherError("FileNotFoundError")
            /\ hist' = Append(hist, Done(patch, before, files, "raised",
                                         OtherError("FileNotFoundError")))
            /\ UNCHANGED files
    /\ UNCHANGED <<patch, commit, reads, before, pure_vars>>

\* a failing call after which the backend is put back as it was at the call
BackendFails_rollback ==
    /\ pc = "applying"
    /\ pos < Len(Pending)
    /\ calls' = Append(calls, [Pending[pos + 1] EXCEPT !.op = @ \o " raised"])
    /\ pc' = "raised"
    /\ err' = BackendException
    /\ files' = before
    /\ hist' = Append(hist, Done(patch, before, before, "raised", BackendException))
    /\ UNCHANGED <<patch, commit, pos, reads, before, pure_vars>>

\* the next call raises in the backend, which it leaves as it was
BackendFails ==
    /\ pc = "applying"
    /\ pos < Len(Pending)
    /\ calls' = Append(calls, [Pending[pos + 1] EXCEPT !.op = @ \o " raised"])
    /\ pc' = "raised"
    /\ err' = BackendException
    /\ hist' = Append(hist, Done(patch, before, files, "raised", BackendException))
    /\ UNCHANGED <<files, patch, commit, pos, reads, before, pure_vars>>

\* apply_commit has walked the commit and apply_patch returns
Return ==
    /\ pc = "applying"
    /\ pos = Len(Pending)
    /\ pc' = "returned"
    /\ hist' = Append(hist, Done(patch, before, files, "returned", NoError))
    /\ UNCHANGED <<files, patch, commit, pos, calls, reads, before, err, pure_vars>>

InitDriver(backends) ==
    /\ files \in backends
    /\ pc = "idle"
    /\ patch = ""
    /\ commit = <<>>
    /\ pos = 0
    /\ calls = <<>>
    /\ reads = {}
    /\ before = <<>>
    /\ err = NoError
    /\ hist = <<>>

\* one call of apply_patch, on any patch text of PatchTexts and any backend
Init == InitDriver(Backends) /\ cn = Null /\ ps = Null /\ rt = Null /\ loc = Null

Next ==
    \/ \E text \in PatchTexts : hist = <<>> /\ pc = "idle" /\ Call(text)
    \/ WriteFn
    \/ DeleteFn
    \/ BackendFails
    \/ Return

Spec == Init /\ [][Next]_vars

\* up to MaxCalls calls in a row, each of one section
NextSeq ==
    \/ \E text \in SeqTexts : Len(hist) < MaxCalls /\ Call(text)
    \/ WriteFn
    \/ DeleteFn
    \/ BackendFails
    \/ Return

SpecSeq == Init /\ [][NextSeq]_vars

-----------------------------------------------------------------------------
(* The driver's properties: what reaches the backend, and in which order *)

\* the lines of the patch text that open a section, and the path each names
IsHeader(line) ==
    \/ startswith(line, UPDATE_FILE_PREFIX)
    \/ startswith(line, DELETE_FILE_PREFIX)
    \/ startswith(line, ADD_FILE_PREFIX)

HeaderPath(line) ==
    IF startswith(line, UPDATE_FILE_PREFIX) THEN StrFrom(line, Len(UPDATE_FILE_PREFIX))
    ELSE IF startswith(line, DELETE_FILE_PREFIX)
    THEN StrFrom(line, Len(DELETE_FILE_PREFIX))
    ELSE StrFrom(line, Len(ADD_FILE_PREFIX))

\* the position in the patch text of the section of path p
SectionLine(text, p) ==
    LET lines == split(strip(text))
        at == {k \in 1..Len(lines) : IsHeader(lines[k]) /\ HeaderPath(lines[k]) = p}
    IN  CHOOSE k \in at : \A j \in at : k <= j

\* the change of the commit a backend call belongs to
ChangeOf(key) == CHOOSE c \in {commit[k] : k \in 1..Len(commit)} : c.path = key

IsMove(change) == change.type = "update" /\ change.move_path # ""

\* C1: when apply_patch raises a DiffError, no write_fn and no delete_fn call
\* was issued before it and the backend is what it was when the call began.
C1_DiffErrorBeforeAnyMutation ==
    (pc = "raised" /\ err.type = "DiffError") => (calls = <<>> /\ files = before)

\* a patch whose first section is valid and whose second one fails to locate
\* its context has raised
C1_Witness ==
    /\ pc = "raised"
    /\ err = DiffError("Invalid Context")
    /\ patch = PatchOf(<<UpdateSection("a", GoodBody), UpdateSection("b", BadContextBody)>>)
    /\ DOMAIN files = {"a", "b"}

\* C2: the backend calls are issued in the order in which their sections
\* appear in the patch text.
C2_CallsInSectionOrder ==
    \A i \in 1..Len(calls) : \A j \in 1..Len(calls) :
        i < j => SectionLine(patch, calls[i].key) <= SectionLine(patch, calls[j].key)

\* a returned call whose two sections issued three calls, the second section
\* naming the path that sorts first
C2_Witness ==
    /\ pc = "returned"
    /\ Len(calls) = 3
    /\ calls[1].key = "b"
    /\ calls[3].key = "a"

\* C3: for a move, write_fn(destination) is called before delete_fn(source),
\* and delete_fn(source) is called only if that write_fn returned.
C3_MoveWritesThenDeletes ==
    \A k \in 1..Len(calls) :
        /\ (calls[k].op \in {"delete", "delete raised"} /\ IsMove(ChangeOf(calls[k].key)))
           => /\ k > 1
              /\ calls[k - 1] = WriteCall(calls[k].key, ChangeOf(calls[k].key).move_path,
                                          ChangeOf(calls[k].key).new_content)
        /\ calls[k].op \in {"write raised", "delete raised"} => k = Len(calls)

\* a move from a to b has written b and deleted a
C3_Witness ==
    /\ pc = "returned"
    /\ calls = <<WriteCall("a", "b", "y\nz"), DeleteCall("a", "a")>>

\* C4 as the spec states it: after a successful move from p to q, p is absent
\* and q holds the rewritten content, q equal to p included.
C4_MoveLeavesDestination ==
    (pc = "returned" /\ Len(commit) = 1 /\ IsMove(commit[1]))
        => /\ commit[1].move_path \in DOMAIN files
           /\ files[commit[1].move_path] = commit[1].new_content
           /\ (commit[1].move_path # commit[1].path => commit[1].path \notin DOMAIN files)

\* C10: when p is absent, applying a patch that adds p and then a patch
\* that deletes p leaves the backend as it was before the first patch.
C10_AddThenDeleteRestores ==
    \A k \in 1..(Len(hist) - 1) : \A p \in Paths : \A b \in AddBodies :
        ( /\ hist[k].patch = PatchOf(<<AddSection(p, b)>>)
          /\ hist[k + 1].patch = PatchOf(<<DeleteSection(p)>>)
          /\ p \notin DOMAIN hist[k].before
          /\ hist[k].pc = "returned"
          /\ hist[k + 1].err.type # "OSError" )
        => /\ hist[k + 1].pc = "returned"
           /\ hist[k + 1].after = hist[k].before

\* b was added to a backend that holds a, then deleted
C10_Witness ==
    /\ Len(hist) = 2
    /\ hist[1].patch = PatchOf(<<AddSection("b", "+n\n+m\n")>>)
    /\ hist[1].before = [p \in {"a"} |-> "x\nz"]
    /\ hist[1].after = [p \in {"a", "b"} |-> IF p = "a" THEN "x\nz" ELSE "n\nm"]
    /\ hist[2].patch = PatchOf(<<DeleteSection("b")>>)
    /\ hist[2].pc = "returned"
    /\ files = hist[1].before

-----------------------------------------------------------------------------
(* canon applied to a string, and to its own result *)

MaxStrLen == 2

\* the keys and the images of the fold table, the composable pair and its
\* composition, a letter the table does not hold and the line break
CanonChars == PUNCT_KEYS \cup {" ", "e", U0301, U00E9, "x", "\n"}

RECURSIVE StringsUpTo(_, _)
StringsUpTo(S, n) ==
    IF n = 0 THEN {""}
    ELSE LET shorter == StringsUpTo(S, n - 1)
         IN shorter \cup {s \o c : s \in shorter, c \in S}

CanonOnce ==
    /\ cn.n = 0
    /\ cn' = [cn EXCEPT !.nfc = NFC(cn.s), !.once = canon(cn.s), !.n = 1]
    /\ UNCHANGED <<driver_vars, ps, rt, loc>>

CanonTwice ==
    /\ cn.n = 1
    /\ cn' = [cn EXCEPT !.twice = canon(cn.once), !.n = 2]
    /\ UNCHANGED <<driver_vars, ps, rt, loc>>

InitCanon ==
    /\ InitDriver({<<>>})
    /\ cn \in {[s |-> s, nfc |-> "", once |-> "", twice |-> "", n |-> 0] :
                  s \in StringsUpTo(CanonChars, MaxStrLen)}
    /\ ps = Null
    /\ rt = Null
    /\ loc = Null

NextCanon == CanonOnce \/ CanonTwice

SpecCanon == InitCanon /\ [][NextCanon]_vars

\* C9: canon(canon(s)) = canon(s) for every string s; each character in the
\* image of the fold table is mapped to itself, and a character outside the
\* table is left as normalisation gave it.
C9_CanonIdempotent ==
    /\ cn.n = 2 => cn.twice = cn.once
    /\ (cn.n >= 1 /\ cn.s \in {"-", "\"", "'", " "}) => cn.once = cn.s
    /\ cn.n >= 1 =>
          /\ Len(cn.once) = Len(cn.nfc)
          /\ \A i \in 1..Len(cn.nfc) :
                SubSeq(cn.nfc, i, i) \notin PUNCT_KEYS
                    => SubSeq(cn.once, i, i) = SubSeq(cn.nfc, i, i)

\* an em dash and a no-break space were folded, and folded again
C9_Witness ==
    /\ cn.n = 2
    /\ cn.s = U2014 \o U00A0
    /\ cn.once = "- "
    /\ cn.twice = "- "

-----------------------------------------------------------------------------
(* text_to_patch and get_updated_file on one Update section *)

MaxBodyLines == 5

ParseFiles == {"b\na\nb"}

BodyLines == {" a", "-b", "+d", "@@", "@@ a", END_OF_FILE_PREFIX}

\* the section bodies of up to MaxBodyLines lines
ParseBodies ==
    {Concat([k \in 1..Len(q) |-> q[k] \o "\n"]) : q \in SeqsUpTo(BodyLines, MaxBodyLines)}

ParseStep ==
    /\ ps.n = 0
    /\ \E r \in {text_to_patch(PatchOf(<<UpdateSection("a", ps.body)>>),
                               [p \in {"a"} |-> ps.file])} :
          ps' = [ps EXCEPT !.parsed = r, !.n = 1]
    /\ UNCHANGED <<driver_vars, cn, rt, loc>>

RewriteStep ==
    /\ ps.n = 1
    /\ ps.parsed.err = NoError
    /\ Len(ps.parsed.actions) = 1
    /\ \E r \in {get_updated_file(ps.file, ps.parsed.actions[1])} :
          ps' = [ps EXCEPT !.out = r, !.n = 2]
    /\ UNCHANGED <<driver_vars, cn, rt, loc>>

InitParse ==
    /\ InitDriver({<<>>})
    /\ cn = Null
    /\ ps \in {[file |-> f, body |-> b, parsed |-> Null, out |-> Null, n |-> 0] :
                  f \in ParseFiles, b \in ParseBodies}
    /\ rt = Null
    /\ loc = Null

NextParse == ParseStep \/ RewriteStep

SpecParse == InitParse /\ [][NextParse]_vars

\* the chunks of the parsed Update action
ParsedChunks == ps.parsed.actions[1].chunks

ParsedOk == ps.n >= 1 /\ ps.parsed.err = NoError /\ Len(ps.parsed.actions) = 1

\* C6 as the spec states it: the orig_index values of a successfully parsed
\* Update action never decrease along the chunk list, End of File hunks
\* included.
C6_OrigIndexNonDecreasing ==
    ParsedOk =>
        \A k \in 1..(Len(ParsedChunks) - 1) :
            ParsedChunks[k].orig_index <= ParsedChunks[k + 1].orig_index

\* C7: every chunk of a successfully parsed Update action has
\* 0 <= orig_index and orig_index + len(del_lines) <= len(original lines).
C7_ChunkWithinFile ==
    ParsedOk =>
        \A k \in 1..Len(ParsedChunks) :
            /\ 0 <= ParsedChunks[k].orig_index
            /\ ParsedChunks[k].orig_index + Len(ParsedChunks[k].del_lines)
                  <= Len(split(ps.file))

\* a hunk pinned to the end of the file deletes its last line
C7_Witness ==
    /\ ParsedOk
    /\ ps.file = "b\na\nb"
    /\ ps.body = " a\n-b\n*** End of File\n"
    /\ ParsedChunks = <<Chunk(2, <<"b">>, <<>>)>>

\* C8: when get_updated_file returns, the lines of the new file after the
\* last chunk's inserted lines are the original lines from
\* last.orig_index + len(last.del_lines) on; with no chunks the new file is
\* the original.
C8_RewriteKeepsTail ==
    (ps.n = 2 /\ ps.out.err = NoError) =>
        LET orig == split(ps.file)
            new == split(ps.out.text)
            last == ParsedChunks[Len(ParsedChunks)]
            tail == Slice(orig, last.orig_index + Len(last.del_lines), Len(orig))
            ins == last.ins_lines
        IN IF ParsedChunks = <<>> THEN ps.out.text = ps.file
           ELSE /\ Len(new) >= Len(ins) + Len(tail)
                /\ SubSeq(new, Len(new) - Len(tail) + 1, Len(new)) = tail
                /\ SubSeq(new, Len(new) - Len(tail) - Len(ins) + 1,
                          Len(new) - Len(tail)) = ins

\* a line was inserted after the second of three lines, and the third kept
C8_Witness ==
    /\ ps.n = 2
    /\ ps.file = "b\na\nb"
    /\ ps.body = " a\n+d\n"
    /\ ParsedChunks = <<Chunk(2, <<>>, <<"d">>)>>
    /\ ps.out = [text |-> "b\na\nd\nb", err |-> NoError]

-----------------------------------------------------------------------------
(* A diff between two files, parsed against the first and applied to it *)

MaxScriptLen == 4
MaxContext == 1

RtLines == {"x", "y", "z"}

\* the steps of an edit script: a line of A kept, a line of A deleted, a
\* line of B inserted
ScriptSteps ==
    {[op |-> o, line |-> l] : o \in {"keep", "del"}, l \in RtLines}
    \cup {[op |-> "add", line |-> "w"]}

RECURSIVE LinesOf(_, _)
LinesOf(es, ops) ==
    IF es = <<>> THEN <<>>
    ELSE (IF Head(es).op \in ops THEN <<Head(es).line>> ELSE <<>>)
         \o LinesOf(Tail(es), ops)

\* the lines of the original file and of the target file
FileA(es) == LinesOf(es, {"keep", "del"})
FileB(es) == LinesOf(es, {"keep", "add"})

\* the steps a diff with c lines of context prints
Retained(es, c) ==
    {k \in 1..Len(es) :
        \E j \in 1..Len(es) : es[j].op # "keep" /\ k - j <= c /\ j - k <= c}

HunkLine(e) ==
    (IF e.op = "keep" THEN " "
     ELSE IF e.op = "del" THEN "-" ELSE HUNK_ADD_LINE_PREFIX) \o e.line \o "\n"

\* the hunks, each after the first opened by a bare @@
RECURSIVE DiffBody(_, _, _)
DiffBody(es, R, k) ==
    IF k > Len(es) THEN ""
    ELSE (IF k \notin R THEN ""
          ELSE (IF (k - 1) \notin R /\ (\E j \in R : j < k) THEN "@@\n" ELSE "")
               \o HunkLine(es[k]))
         \o DiffBody(es, R, k + 1)

\* the section body; eof marks a last hunk that runs to the end of A
DiffOf(es, c, eof) ==
    DiffBody(es, Retained(es, c), 1)
    \o (IF eof /\ Len(es) \in Retained(es, c) THEN END_OF_FILE_PREFIX \o "\n" ELSE "")

\* the hunks as intervals of steps
Hunks(es, c) ==
    LET R == Retained(es, c)
    IN {<<lo, hi>> \in (1..Len(es)) \X (1..Len(es)) :
           /\ lo <= hi
           /\ \A k \in lo..hi : k \in R
           /\ (lo - 1) \notin R
           /\ (hi + 1) \notin R}

\* lines[i : i + len(context)] and context agree in one of the three passes
MatchesAt(lines, context, i) ==
    LET w == Slice(lines, i, i + Len(context))
    IN \/ canon(join(w)) = canon(join(context))
       \/ canon(join(MapRstrip(w))) = canon(join(MapRstrip(context)))
       \/ canon(join(MapStrip(w))) = canon(join(MapStrip(context)))

\* every hunk has kept or deleted lines, and they match A at the hunk's own
\* position only
Unambiguous(es, c) ==
    \A h \in Hunks(es, c) :
        LET context == FileA(SubSeq(es, h[1], h[2]))
            at == Len(FileA(SubSeq(es, 1, h[1] - 1)))
        IN /\ context # <<>>
           /\ \A i \in 0..(Len(FileA(es)) - Len(context)) :
                 i # at => ~MatchesAt(FileA(es), context, i)

RtParse ==
    /\ rt.n = 0
    /\ \E r \in {text_to_patch(
                    PatchOf(<<UpdateSection("a", DiffOf(rt.es, rt.c, rt.eof))>>),
                    [p \in {"a"} |-> join(FileA(rt.es))])} :
          rt' = [rt EXCEPT !.parsed = r, !.n = 1]
    /\ UNCHANGED <<driver_vars, cn, ps, loc>>

RtRewrite ==
    /\ rt.n = 1
    /\ rt.parsed.err = NoError
    /\ Len(rt.parsed.actions) = 1
    /\ \E r \in {get_updated_file(join(FileA(rt.es)), rt.parsed.actions[1])} :
          rt' = [rt EXCEPT !.out = r, !.n = 2]
    /\ UNCHANGED <<driver_vars, cn, ps, loc>>

InitRoundTrip ==
    /\ InitDriver({<<>>})
    /\ cn = Null
    /\ ps = Null
    /\ loc = Null
    /\ rt \in {[es |-> es, c |-> c, eof |-> eof, parsed |-> Null, out |-> Null,
                n |-> 0] :
                  es \in {q \in SeqsUpTo(ScriptSteps, MaxScriptLen) :
                             FileA(q) # <<>> /\ FileB(q) # <<>>},
                  c \in 0..MaxContext, eof \in BOOLEAN}

NextRoundTrip == RtParse \/ RtRewrite

SpecRoundTrip == InitRoundTrip /\ [][NextRoundTrip]_vars

\* C5 as the spec states it: for every diff between A and B and every
\* number of context lines, parsing the patch against A succeeds and
\* rewriting A with the chunks gives B.
C5_RoundTrip ==
    /\ rt.n >= 1 => (rt.parsed.err = NoError /\ Len(rt.parsed.actions) = 1)
    /\ rt.n = 2 => rt.out = [text |-> join(FileB(rt.es)), err |-> NoError]

\* C5, amended: the round trip holds when every hunk has at least one kept
\* or deleted line and these lines match A, in each of the locator's three
\* passes, at the hunk's own position only.
C5_RoundTripUnambiguous ==
    (rt.n >= 1 /\ Unambiguous(rt.es, rt.c)) =>
        /\ rt.parsed.err = NoError
        /\ Len(rt.parsed.actions) = 1
        /\ rt.n = 2 => rt.out = [text |-> join(FileB(rt.es)), err |-> NoError]

\* two hunks with no context line, the second at the end of the file, gave B
C5_Witness ==
    /\ rt.n = 2
    /\ rt.es = <<[op |-> "del", line |-> "x"], [op |-> "keep", line |-> "y"],
                 [op |-> "del", line |-> "z"], [op |-> "add", line |-> "w"]>>
    /\ rt.c = 0
    /\ rt.eof
    /\ Unambiguous(rt.es, rt.c)
    /\ Len(rt.parsed.actions[1].chunks) = 2
    /\ rt.out.text = "y\nw"

-----------------------------------------------------------------------------
(* text_to_patch on a patch text of several sections *)

\* a section of the patch text: its header, and the body its kind needs
TextSecs ==
    {[kind |-> k, path |-> p, move |-> ""] :
        k \in {"update", "delete", "add"}, p \in Paths}
    \cup {[kind |-> "update", path |-> p, move |-> q] : p \in Paths, q \in Paths}

SecText(sec) ==
    IF sec.kind = "delete" THEN DeleteSection(sec.path)
    ELSE IF sec.kind = "add" THEN AddSection(sec.path, "+n\n")
    ELSE IF sec.move = "" THEN UpdateSection(sec.path, GoodBody)
    ELSE MoveSection(sec.path, sec.move, GoodBody)

\* what follows the last section: the End Patch line, nothing, or the End
\* Patch line and a line after it
Endings == {strip(PATCH_SUFFIX), "", strip(PATCH_SUFFIX) \o "\nx"}

TextOf(ss, ending) ==
    PATCH_PREFIX \o Concat([k \in 1..Len(ss) |-> SecText(ss[k])]) \o ending

TextParse ==
    /\ ps.n = 0
    /\ \E r \in {text_to_patch(TextOf(ps.ss, ps.ending), ps.orig)} :
          ps' = [ps EXCEPT !.parsed = r, !.n = 1]
    /\ UNCHANGED <<driver_vars, cn, rt, loc>>

InitText ==
    /\ InitDriver({<<>>})
    /\ cn = Null
    /\ ps \in {[ss |-> ss, ending |-> e, orig |-> o, parsed |-> Null, n |-> 0] :
                  ss \in SeqsUpTo(TextSecs, MaxSections), e \in Endings,
                  o \in Backends}
    /\ rt = Null
    /\ loc = Null

NextText == TextParse

SpecText == InitText /\ [][NextText]_vars

\* the class name a section's error messages begin with
KindName(sec) ==
    IF sec.kind = "update" THEN "Update"
    ELSE IF sec.kind = "delete" THEN "Delete" ELSE "Add"

\* section j is the first to name a path an earlier section names, and the
\* sections before it parse
FirstDuplicate(j) ==
    /\ \E i \in 1..(j - 1) : ps.ss[i].path = ps.ss[j].path
    /\ \A i \in 1..(j - 1) : \A h \in 1..(j - 1) :
          i # h => ps.ss[i].path # ps.ss[h].path
    /\ text_to_patch(TextOf(SubSeq(ps.ss, 1, j - 1), strip(PATCH_SUFFIX)),
                     ps.orig).err = NoError

\* C11: a section header whose path already has an action raises the
\* Duplicate Path DiffError of its kind, before the Missing File and the
\* File already exists checks; a returned Patch has one action per section
\* and no two of them share a path.
C11_DuplicatePath ==
    (ps.n = 1 /\ ps.ending = strip(PATCH_SUFFIX)) =>
        /\ \A j \in 2..Len(ps.ss) :
              FirstDuplicate(j) =>
                  ps.parsed.err = DiffError(KindName(ps.ss[j])
                                            \o " File Error: Duplicate Path")
        /\ ps.parsed.err = NoError =>
              /\ Len(ps.parsed.actions) = Len(ps.ss)
              /\ \A i \in 1..Len(ps.ss) : \A h \in 1..Len(ps.ss) :
                    i # h => ps.ss[i].path # ps.ss[h].path

\* a was added and then deleted in one patch, a being in no snapshot
C11_Witness ==
    /\ ps.n = 1
    /\ ps.ss = <<[kind |-> "add", path |-> "a", move |-> ""],
                 [kind |-> "delete", path |-> "a", move |-> ""]>>
    /\ ps.ending = strip(PATCH_SUFFIX)
    /\ ps.orig = <<>>
    /\ ps.parsed.err = DiffError("Delete File Error: Duplicate Path")

-----------------------------------------------------------------------------
(* The checks of apply_patch against the backend *)

\* the paths of the header lines of the patch text that begin with prefix
PathsAfter(text, prefix) ==
    LET lines == split(strip(text))
    IN {StrFrom(lines[k], Len(prefix)) :
           k \in {h \in 1..Len(lines) : startswith(lines[h], prefix)}}

AddTargets == PathsAfter(patch, ADD_FILE_PREFIX)

ReadTargets ==
    PathsAfter(patch, UPDATE_FILE_PREFIX) \cup PathsAfter(patch, DELETE_FILE_PREFIX)

Called == pc # "idle" /\ startswith(patch, PATCH_PREFIX)

AddExistsRaised ==
    /\ pc = "raised"
    /\ err = DiffError("Add File Error: File already exists")
    /\ calls = <<>>
    /\ files = before

\* C12 as the spec states it: a patch with an Add File section for a path
\* the backend holds raises the File already exists DiffError, with no
\* backend call and the backend unchanged.
C12_AddExisting ==
    (Called /\ AddTargets \cap DOMAIN before # {}) => AddExistsRaised

\* C12, amended: the same, when the backend holds the path of every Update
\* File and Delete File section of the patch.
C12_AddExistingAllReadable ==
    (Called /\ AddTargets \cap DOMAIN before # {} /\ ReadTargets \subseteq DOMAIN before)
        => AddExistsRaised

\* an Update of a and an Add of b, the backend holding both
C12_Witness ==
    /\ AddExistsRaised
    /\ patch = PatchOf(<<UpdateSection("a", GoodBody), AddSection("b", "+n\n")>>)
    /\ DOMAIN before = {"a", "b"}

FileNotFoundRaised ==
    /\ pc = "raised"
    /\ err = DiffError("File not found")
    /\ calls = <<>>
    /\ files = before

\* C13: a patch with an Update File or Delete File section for a path the
\* backend does not hold raises the File not found DiffError and issues no
\* write_fn or delete_fn call, whatever its other sections are.
C13_MissingTargetRejected ==
    (Called /\ ~(ReadTargets \subseteq DOMAIN before)) => FileNotFoundRaised

\* an Update of b, which the backend lacks, before an Add of a, which it holds
C13_Witness ==
    /\ FileNotFoundRaised
    /\ patch = PatchOf(<<UpdateSection("b", GoodBody), AddSection("a", "+n\n")>>)
    /\ DOMAIN before = {"a"}
    /\ reads = {"b"}

-----------------------------------------------------------------------------
(* The hunks of an Update section, read off the section body *)

\* the lines of the section body of SpecParse
BodySeq == LET l == split(ps.body) IN SubSeq(l, 1, Len(l) - 1)

HunkHeaders == {"@@", "@@ a"}

\* a hunk can begin after k body lines: at the top of the section or at a
\* header line
HunkAt(k) ==
    /\ k < Len(BodySeq)
    /\ k = 0 \/ BodySeq[k + 1] \in HunkHeaders

\* the k lines before it are a section that parses
HunkBegins(k) ==
    /\ HunkAt(k)
    /\ text_to_patch(
          PatchOf(<<UpdateSection("a",
                      Concat([h \in 1..k |-> BodySeq[h] \o "\n"]))>>),
          [p \in {"a"} |-> ps.file]).err = NoError

\* the body lines of the hunk that begins after k lines: from..to, and the
\* line that ends it
HunkFrom(k) == IF BodySeq[k + 1] \in HunkHeaders THEN k + 2 ELSE k + 1

HunkTo(k) ==
    LET stops == {h \in HunkFrom(k)..Len(BodySeq) :
                     BodySeq[h] \in HunkHeaders \cup {END_OF_FILE_PREFIX}}
    IN IF stops = {} THEN Len(BodySeq)
       ELSE (CHOOSE h \in stops : \A g \in stops : h <= g) - 1

HunkEof(k) ==
    HunkTo(k) < Len(BodySeq) /\ BodySeq[HunkTo(k) + 1] = END_OF_FILE_PREFIX

\* the kept and deleted lines of that hunk
RECURSIVE ContextOf(_)
ContextOf(q) ==
    IF q = <<>> THEN <<>>
    ELSE (IF startswith(Head(q), HUNK_ADD_LINE_PREFIX) THEN <<>>
          ELSE <<StrFrom(Head(q), 1)>>) \o ContextOf(Tail(q))

HunkContext(k) == ContextOf(SubSeq(BodySeq, HunkFrom(k), HunkTo(k)))

\* no window of the file matches the context in any of the three passes
Unlocatable(context) ==
    /\ context # <<>>
    /\ \A i \in 0..(Len(split(ps.file)) - 1) : ~MatchesAt(split(ps.file), context, i)

\* C14: a hunk whose kept and deleted lines are found nowhere in the file by
\* any of the three passes makes the parse raise the Invalid Context
\* DiffError, Invalid EOF Context when End of File ends the hunk, and no
\* Patch is returned.
C14_InvalidContext ==
    ps.n = 1 =>
        \A k \in 0..(Len(BodySeq) - 1) :
            (HunkAt(k) /\ Unlocatable(HunkContext(k)) /\ HunkBegins(k)) =>
                /\ ps.parsed.err = DiffError(IF HunkEof(k) THEN "Invalid EOF Context"
                                             ELSE "Invalid Context")
                /\ ps.parsed.actions = <<>>

\* the second hunk deletes two lines b in a row, which the file has not
C14_Witness ==
    /\ ps.n = 1
    /\ ps.body = " a\n+d\n@@\n-b\n-b\n"
    /\ HunkBegins(2)
    /\ HunkContext(2) = <<"b", "b">>
    /\ ps.parsed.err = DiffError("Invalid Context")

\* C15 as the spec states it: a patch text that begins with the Begin Patch
\* line and does not end with the End Patch line is rejected with the
\* Missing End Patch DiffError.
C15_MissingEndPatch ==
    (ps.n = 1 /\ "ending" \in DOMAIN ps /\ ps.ending # strip(PATCH_SUFFIX))
        => ps.parsed.err = DiffError("Missing End Patch")

\* C16: a patch text that does not start with PATCH_PREFIX makes apply_patch
\* raise the Patch must start with DiffError without any call of read_fn,
\* write_fn or delete_fn.
C16_BadPrefixRejected ==
    (pc # "idle" /\ ~startswith(patch, PATCH_PREFIX)) =>
        /\ pc = "raised"
        /\ err.type = "DiffError"
        /\ startswith(err.msg, "Patch must start with")
        /\ reads = {}
        /\ calls = <<>>
        /\ files = before

\* a patch that deletes a file the backend holds, behind a leading space
C16_Witness ==
    /\ pc = "raised"
    /\ patch = " " \o PatchOf(<<DeleteSection("a")>>)
    /\ "a" \in DOMAIN files
    /\ startswith(err.msg, "Patch must start with")
    /\ reads = {}

-----------------------------------------------------------------------------
(* find_context_core and find_context on a drawn file and context *)

MaxLocLines == 3
MaxLocContext == 2

\* file lines that differ from "a" in trailing or leading space, and a dash
\* the fold table maps to "-"
LocFileLines == {"a", "a ", " a", U2014}
LocContextLines == {"a", "a ", "-"}

\* the start of the first search find_context makes: the caller's start,
\* or the pinned one of an End of File hunk
CoreStart ==
    IF loc.eof THEN Len(loc.lines) - Len(loc.context) ELSE loc.start

LocateCore ==
    /\ loc.n = 0
    /\ loc' = [loc EXCEPT !.core = find_context_core(loc.lines, loc.context, CoreStart),
                          !.n = 1]
    /\ UNCHANGED <<driver_vars, cn, ps, rt>>

Locate ==
    /\ loc.n = 1
    /\ loc' = [loc EXCEPT !.res = find_context(loc.lines, loc.context, loc.start,
                                               loc.eof),
                          !.n = 2]
    /\ UNCHANGED <<driver_vars, cn, ps, rt>>

\* a file has at least one line; the caller's start is a cursor into it
InitLocate ==
    /\ InitDriver({<<>>})
    /\ cn = Null
    /\ ps = Null
    /\ rt = Null
    /\ loc \in {[lines |-> l, context |-> c, start |-> s, eof |-> e,
                 core |-> Null, res |-> Null, n |-> 0] :
                   l \in SeqsUpTo(LocFileLines, MaxLocLines) \ {<<>>},
                   c \in SeqsUpTo(LocContextLines, MaxLocContext),
                   s \in 0..MaxLocLines, e \in BOOLEAN}
    /\ loc.start <= Len(loc.lines)

NextLocate == LocateCore \/ Locate

SpecLocate == InitLocate /\ [][NextLocate]_vars

\* the window of len(context) lines at index i agrees with the context,
\* line by line, after f and canon
WindowAgrees(lines, context, i, f(_)) ==
    /\ 0 <= i
    /\ i + Len(context) <= Len(lines)
    /\ \A k \in 1..Len(context) : canon(f(lines[i + k])) = canon(f(context[k]))

Same(s) == s

\* the smallest index from start on where the window agrees, -1 if none
FirstAgreeing(lines, context, start, f(_)) ==
    LET hits == {i \in start..(Len(lines) - Len(context)) :
                    WindowAgrees(lines, context, i, f)}
    IN IF hits = {} THEN -1 ELSE CHOOSE i \in hits : \A j \in hits : i <= j

\* the result the three passes are to give
Located(lines, context, start) ==
    IF context = <<>> THEN [index |-> start, fuzz |-> 0]
    ELSE IF FirstAgreeing(lines, context, start, Same) # -1
    THEN [index |-> FirstAgreeing(lines, context, start, Same), fuzz |-> 0]
    ELSE IF FirstAgreeing(lines, context, start, rstrip) # -1
    THEN [index |-> FirstAgreeing(lines, context, start, rstrip), fuzz |-> 1]
    ELSE IF FirstAgreeing(lines, context, start, strip) # -1
    THEN [index |-> FirstAgreeing(lines, context, start, strip), fuzz |-> 100]
    ELSE [index |-> -1, fuzz |-> 0]

\* C17: find_context_core returns (start, 0) for an empty context, else the
\* smallest index from start on whose window equals the context after
\* canon with fuzz 0, else after rstrip with fuzz 1, else after strip with
\* fuzz 100, else (-1, 0); an exact match at a later index wins over a
\* tolerant match at an earlier one.
C17_FindContextCore ==
    loc.n >= 1 => loc.core = Located(loc.lines, loc.context, CoreStart)

\* the first line matches after rstrip, the second exactly
C17_Witness ==
    /\ loc.n >= 1
    /\ loc.lines = <<"a ", "a">>
    /\ loc.context = <<"a">>
    /\ loc.start = 0
    /\ ~loc.eof
    /\ loc.core = [index |-> 1, fuzz |-> 0]

\* C18: with eof, find_context returns the match pinned at
\* len(lines) - len(context), with its pass's fuzz, when the context matches
\* there, and else the search from the caller's start with 10000 added to
\* the fuzz; so a fuzz below 10000 means the pinned index, and the index
\* is -1 or not negative.
C18_FindContextEof ==
    (loc.n = 2 /\ loc.eof) =>
        LET pin == Len(loc.lines) - Len(loc.context)
            pinned == Located(loc.lines, loc.context, pin)
            again == Located(loc.lines, loc.context, loc.start)
        IN /\ pinned.index # -1 => loc.res = [index |-> pin, fuzz |-> pinned.fuzz]
           /\ pinned.index = -1 =>
                 loc.res = [index |-> again.index, fuzz |-> again.fuzz + 10000]
           /\ loc.res.fuzz < 10000 => loc.res.index = pin
           /\ loc.res.index = -1 \/ loc.res.index >= 0

\* the context is at index 0 and at the end: the pinned match is returned
C18_Witness ==
    /\ loc.n = 2
    /\ loc.eof
    /\ loc.lines = <<"a", "a ", "a">>
    /\ loc.context = <<"a">>
    /\ loc.start = 0
    /\ loc.res = [index |-> 2, fuzz |-> 0]

-----------------------------------------------------------------------------
(* A backend call that raises in the middle of a commit *)

\* the backend after the calls cs, each of which returned
RECURSIVE AfterCalls(_, _)
AfterCalls(fs, cs) ==
    IF cs = <<>> THEN fs
    ELSE AfterCalls(IF Head(cs).op = "write"
                    THEN mock_write(fs, Head(cs).path, Head(cs).content)
                    ELSE mock_delete(fs, Head(cs).path),
                    Tail(cs))

\* the last call of the log raised
CallRaised == pc = "raised" /\ calls # <<>>

\* C19: when a write_fn or delete_fn call raises, its exception leaves
\* apply_patch as it is, the backend holds the effects of the calls that
\* returned before it, and no further call is issued.
C19_NoRollback ==
    CallRaised =>
        /\ err \in {BackendException, OtherError("FileNotFoundError")}
        /\ files = AfterCalls(before, SubSeq(calls, 1, Len(calls) - 1))
        /\ \A k \in 1..Len(calls) :
              /\ calls[k].key = Pending[k].key
              /\ calls[k].path = Pending[k].path
              /\ k < Len(calls) => calls[k] = Pending[k]
        /\ ~ENABLED WriteFn
        /\ ~ENABLED DeleteFn
        /\ ~ENABLED BackendFails

\* a was moved to b: the write of b returned, the delete of a raised, and
\* the delete of b that the second section asks for was not issued
C19_Witness ==
    /\ CallRaised
    /\ err = BackendException
    /\ calls = <<WriteCall("a", "b", "y\nz"),
                 [DeleteCall("a", "a") EXCEPT !.op = "delete raised"]>>
    /\ before = [p \in {"a", "b"} |-> "x\nz"]
    /\ files = [p \in {"a", "b"} |-> IF p = "a" THEN "x\nz" ELSE "y\nz"]
    /\ Len(Pending) = 3

-----------------------------------------------------------------------------
(* The values the local variable index of parse_update_file takes *)

\* the while loop of parse_update_file, keeping the values of index: the
\* one it starts with, the one after each def-line scan and the one after
\* each located hunk.  w.self_index is self.index, w.index the cursor.
RECURSIVE CursorLoop(_, _, _)
CursorLoop(lines, file_lines, w) ==
    IF is_done(lines, w.self_index, UpdateEndPrefixes) THEN w.seen
    ELSE
    LET d == read_str(lines, w.self_index, "@@ ")
        def_str == d.text
        section == def_str = "" /\ d.index < Len(lines)
                      /\ lines[d.index + 1] = "@@"
        self_index == IF section THEN d.index + 1 ELSE d.index
    IN IF ~(def_str # "" \/ section \/ w.index = 0) THEN w.seen
       ELSE
       Bind(DefLine(file_lines, def_str, w.index), LAMBDA dl :
       Bind(peek_next_section(lines, self_index), LAMBDA pk :
       Bind(find_context(file_lines, pk.old, dl.index, pk.eof), LAMBDA fc :
       Bind([self_index |-> pk.index,
             index |-> fc.index + Len(pk.old),
             seen |-> w.seen \o <<dl.index, fc.index + Len(pk.old)>>],
            LAMBDA next :
          IF pk.err # "" \/ fc.index = -1 THEN Append(w.seen, dl.index)
          ELSE IF next.self_index = w.self_index /\ next.index = w.index
          THEN next.seen
          ELSE CursorLoop(lines, file_lines, next)))))

\* the cursor values of parse_update_file for the one Update section of the
\* patch text: parse enters it after the two header lines
Cursors(text, file) ==
    CursorLoop(split(strip(text)), split(file),
               [self_index |-> 2, index |-> 0, seen |-> <<0>>])

ParseCursors == Cursors(PatchOf(<<UpdateSection("a", ps.body)>>), ps.file)

\* C20: the cursor index of parse_update_file never decreases from one step
\* to the next, after a def-line match and after a located hunk alike, and
\* stays within 0..len(file_lines), also when the hunk ends with
\* "*** End of File" and its pinned search starts before the cursor.
C20_CursorMonotone ==
    ps.n = 1 =>
        \E seen \in {ParseCursors} :
            /\ \A k \in 1..Len(seen) :
                  0 <= seen[k] /\ seen[k] <= Len(split(ps.file))
            /\ \A k \in 1..(Len(seen) - 1) : seen[k] <= seen[k + 1]

\* the first hunk leaves the cursor at 2; the second, an End of File hunk
\* with the context a, b, is pinned at 3 - 2 = 1, before the cursor, and
\* leaves the cursor at 3
C20_Witness ==
    /\ ps.n = 1
    /\ ps.file = "b\na\nb"
    /\ ps.body = " a\n@@\n a\n-b\n*** End of File\n"
    /\ ParsedOk
    /\ ParseCursors = <<0, 0, 2, 2, 3>>
    /\ HunkEof(1)
    /\ Len(split(ps.file)) - Len(HunkContext(1)) < ParseCursors[3]

-----------------------------------------------------------------------------
(* The fuzz of a parse *)

\* the numbers of body lines before each hunk of the section, in order
HunkStarts ==
    LET RECURSIVE From(_)
        From(k) == IF k >= Len(BodySeq) THEN <<>>
                   ELSE (IF HunkAt(k) THEN <<k>> ELSE <<>>) \o From(k + 1)
    IN From(0)

\* the def-line of the hunk that begins after k lines, "" without one
DefStr(k) ==
    IF startswith(BodySeq[k + 1], "@@ ") THEN StrFrom(BodySeq[k + 1], 3) ELSE ""

\* C21 as the spec states it: a parse that returns fuzz 0 matched
\* perfectly: every def-line of the section equals, after canon, a line of
\* the file at or after the cursor, and every hunk's context agrees exactly
\* with the file where the hunk was located.
C21_FuzzZeroPerfect ==
    (ps.n = 1 /\ ParsedOk /\ ps.parsed.fuzz = 0) =>
        \E seen \in {ParseCursors} : \E file_lines \in {split(ps.file)} :
            \A j \in 1..Len(HunkStarts) :
                LET k == HunkStarts[j]
                    context == HunkContext(k)
                IN /\ 2 * j + 1 <= Len(seen)
                   /\ strip(DefStr(k)) # "" =>
                         \E i \in seen[2 * j - 1]..(Len(file_lines) - 1) :
                             canon(file_lines[i + 1]) = canon(DefStr(k))
                   /\ WindowAgrees(file_lines, context,
                                   seen[2 * j + 1] - Len(context), Same)

-----------------------------------------------------------------------------
(* Update sections whose contexts need tolerance to be located *)

MaxFuzzyLines == 3

\* a line with a trailing blank and an em dash; a line with a leading blank
FuzzyFiles == {"a \n" \o U2014 \o "\nb", " a\nb"}

\* the patch spells the lines a and - (the ASCII hyphen)
FuzzyLines == {" a", " -", "-a", "-b", "+d"}

FuzzyBodies ==
    {Concat([k \in 1..Len(q) |-> q[k] \o "\n"]) : q \in SeqsUpTo(FuzzyLines, MaxFuzzyLines)}

InitVerbatim ==
    /\ InitDriver({<<>>})
    /\ cn = Null
    /\ ps \in {[file |-> f, body |-> b, parsed |-> Null, out |-> Null, n |-> 0] :
                  f \in FuzzyFiles, b \in FuzzyBodies}
    /\ rt = Null
    /\ loc = Null

SpecVerbatim == InitVerbatim /\ [][NextParse]_vars

\* the lines of s at the positions of keep, in order
RECURSIVE Pick(_, _, _)
Pick(s, keep, k) ==
    IF k > Len(s) THEN <<>>
    ELSE (IF k \in keep THEN <<s[k]>> ELSE <<>>) \o Pick(s, keep, k + 1)

\* the sum of f over 1..n
RECURSIVE SumTo(_, _)
SumTo(f(_), n) == IF n = 0 THEN 0 ELSE f(n) + SumTo(f, n - 1)

\* where the new file holds the first inserted line of chunk k, less one
InsAt(k) ==
    LET Grow(j) == Len(ParsedChunks[j].ins_lines) - Len(ParsedChunks[j].del_lines)
    IN ParsedChunks[k].orig_index + SumTo(Grow, k - 1)

\* the positions (from 1) of the new file that hold inserted lines
InsertedAt ==
    UNION {(InsAt(k) + 1)..(InsAt(k) + Len(ParsedChunks[k].ins_lines)) :
              k \in 1..Len(ParsedChunks)}

\* the positions (from 1) of the original file that a chunk deletes
DeletedAt ==
    UNION {(ParsedChunks[k].orig_index + 1)
             ..(ParsedChunks[k].orig_index + Len(ParsedChunks[k].del_lines)) :
              k \in 1..Len(ParsedChunks)}

\* the + lines of the section body without their sign, in order
RECURSIVE Payload(_)
Payload(q) ==
    IF q = <<>> THEN <<>>
    ELSE (IF startswith(Head(q), HUNK_ADD_LINE_PREFIX) THEN <<StrFrom(Head(q), 1)>>
          ELSE <<>>) \o Payload(Tail(q))

\* C22: the lines of an Update's output that no chunk inserted are, in
\* order, the original file's lines that no chunk deleted, character for
\* character, also when the hunk was located with fuzz > 0; the inserted
\* lines are the patch's + lines as written.
C22_KeptLinesVerbatim ==
    (ps.n = 2 /\ ps.out.err = NoError) =>
        \E orig \in {split(ps.file)} :
        \E kept \in {Pick(orig, (1..Len(orig)) \ DeletedAt, 1)} :
        \E ins \in {Payload(BodySeq)} :
            LET n == Len(kept) + Len(ins)
                Rank(S, i) == Cardinality({j \in S : j <= i})
            IN /\ InsertedAt \subseteq 1..n
               /\ Cardinality(InsertedAt) = Len(ins)
               /\ ps.out.text =
                     join([i \in 1..n |->
                             IF i \in InsertedAt THEN ins[Rank(InsertedAt, i)]
                             ELSE kept[Rank((1..n) \ InsertedAt, i)]])

\* the patch spells the first two lines a and -, the file has them as "a "
\* and an em dash: the hunk is located by the rstrip pass and the output
\* keeps the file's spelling
C22_Witness ==
    /\ ps.n = 2
    /\ ps.file = "a \n" \o U2014 \o "\nb"
    /\ ps.body = " a\n -\n+d\n"
    /\ ps.parsed.fuzz = 1
    /\ ParsedChunks = <<Chunk(2, <<>>, <<"d">>)>>
    /\ ps.out = [text |-> "a \n" \o U2014 \o "\nd\nb", err |-> NoError]

-----------------------------------------------------------------------------
(* Update sections with lines that are neither hunk lines nor headers *)

MaxOddLines == 3

OddFiles == {"b\na\nb"}

\* a lone *** and a line that starts with @@ without being a hunk header
OddLines == {" a", "-b", "@@", "@@x", "***"}

OddBodies ==
    {Concat([k \in 1..Len(q) |-> q[k] \o "\n"]) : q \in SeqsUpTo(OddLines, MaxOddLines)}

InitTerminate ==
    /\ InitDriver({<<>>})
    /\ cn = Null
    /\ ps \in {[file |-> f, body |-> b, parsed |-> Null, out |-> Null, n |-> 0] :
                  f \in OddFiles, b \in OddBodies}
    /\ rt = Null
    /\ loc = Null

SpecTerminate == InitTerminate /\ [][NextParse]_vars

\* C23 as the spec states it: text_to_patch comes to an end on every patch
\* text and snapshot, returning the Patch and the fuzz or raising DiffError,
\* also when a lone *** or a line that starts with @@ and is no hunk header
\* follows the Update header.
C23_ParseTerminates ==
    ps.n >= 1 => ps.parsed.err.type \in {NoError.type, DiffError("").type}

-----------------------------------------------------------------------------
(* The sections of the text and the mutations of a successful call *)

\* C24 as the spec states it: when apply_patch succeeds, the paths that
\* have an action in the parsed Patch are the paths named by the Update,
\* Delete and Add header lines anywhere in the text: no section is left
\* out.
C24_NoSectionDropped ==
    pc = "returned" =>
        {commit[k].path : k \in 1..Len(commit)}
            = identify_files_needed(patch) \cup identify_files_added(patch)

\* C25 as the spec states it: in a successful apply_patch run no backend
\* path is the target of two mutations, neither written twice nor written
\* and deleted, a move destination that is another section's path included.
C25_OneMutationPerPath ==
    pc = "returned" =>
        \A i \in 1..Len(calls) : \A j \in 1..Len(calls) :
            i # j => calls[i].path # calls[j].path

=============================================================================
